---- MODULE Spec2Model ----
(***************************************************************************)
(* Model of files/backup.py of galaxyproject/ansible-postgresql: the PITR  *)
(* backup script (hot backup bracket, rsync mirror, metadata, retention    *)
(* pruning and WAL archive cleanup).                                       *)
(*                                                                         *)
(* Text is modelled as sequences of one-character strings, so that the     *)
(* label regular expression, Label.__init__ and the listing parser are     *)
(* computed as the code computes them.                                     *)
(***************************************************************************)
EXTENDS Integers, Sequences, FiniteSets, TLC

(***************************************************************************)
(* Bounds of the model.                                                    *)
(***************************************************************************)
\* most backups present at the destination when a run starts
MaxBackups == 3
\* largest --keep value tried
MaxKeep == 2

(***************************************************************************)
(* Text helpers.                                                           *)
(***************************************************************************)
\* A character that cannot be written in a string here is written by its
\* code point, "U+0661" for ARABIC-INDIC DIGIT ONE.
Digits == <<"0", "1", "2", "3", "4", "5", "6", "7", "8", "9">>

\* The decimal digits outside ASCII (Unicode category Nd), ten to a row in
\* the order of their values: \d of a str pattern matches them and int()
\* reads them.
UnicodeDigits ==
    <<
       <<"U+0660", "U+0661", "U+0662", "U+0663", "U+0664", "U+0665", "U+0666", "U+0667", "U+0668", "U+0669">>,
       <<"U+06F0", "U+06F1", "U+06F2", "U+06F3", "U+06F4", "U+06F5", "U+06F6", "U+06F7", "U+06F8", "U+06F9">>,
       <<"U+07C0", "U+07C1", "U+07C2", "U+07C3", "U+07C4", "U+07C5", "U+07C6", "U+07C7", "U+07C8", "U+07C9">>,
       <<"U+0966", "U+0967", "U+0968", "U+0969", "U+096A", "U+096B", "U+096C", "U+096D", "U+096E", "U+096F">>,
       <<"U+09E6", "U+09E7", "U+09E8", "U+09E9", "U+09EA", "U+09EB", "U+09EC", "U+09ED", "U+09EE", "U+09EF">>,
       <<"U+0A66", "U+0A67", "U+0A68", "U+0A69", "U+0A6A", "U+0A6B", "U+0A6C", "U+0A6D", "U+0A6E", "U+0A6F">>,
       <<"U+0AE6", "U+0AE7", "U+0AE8", "U+0AE9", "U+0AEA", "U+0AEB", "U+0AEC", "U+0AED", "U+0AEE", "U+0AEF">>,
       <<"U+0B66", "U+0B67", "U+0B68", "U+0B69", "U+0B6A", "U+0B6B", "U+0B6C", "U+0B6D", "U+0B6E", "U+0B6F">>,
       <<"U+0BE6", "U+0BE7", "U+0BE8", "U+0BE9", "U+0BEA", "U+0BEB", "U+0BEC", "U+0BED", "U+0BEE", "U+0BEF">>,
       <<"U+0C66", "U+0C67", "U+0C68", "U+0C69", "U+0C6A", "U+0C6B", "U+0C6C", "U+0C6D", "U+0C6E", "U+0C6F">>,
       <<"U+0CE6", "U+0CE7", "U+0CE8", "U+0CE9", "U+0CEA", "U+0CEB", "U+0CEC", "U+0CED", "U+0CEE", "U+0CEF">>,
       <<"U+0D66", "U+0D67", "U+0D68", "U+0D69", "U+0D6A", "U+0D6B", "U+0D6C", "U+0D6D", "U+0D6E", "U+0D6F">>,
       <<"U+0DE6", "U+0DE7", "U+0DE8", "U+0DE9", "U+0DEA", "U+0DEB", "U+0DEC", "U+0DED", "U+0DEE", "U+0DEF">>,
       <<"U+0E50", "U+0E51", "U+0E52", "U+0E53", "U+0E54", "U+0E55", "U+0E56", "U+0E57", "U+0E58", "U+0E59">>,
       <<"U+0ED0", "U+0ED1", "U+0ED2", "U+0ED3", "U+0ED4", "U+0ED5", "U+0ED6", "U+0ED7", "U+0ED8", "U+0ED9">>,
       <<"U+0F20", "U+0F21", "U+0F22", "U+0F23", "U+0F24", "U+0F25", "U+0F26", "U+0F27", "U+0F28", "U+0F29">>,
       <<"U+1040", "U+1041", "U+1042", "U+1043", "U+1044", "U+1045", "U+1046", "U+1047", "U+1048", "U+1049">>,
       <<"U+1090", "U+1091", "U+1092", "U+1093", "U+1094", "U+1095", "U+1096", "U+1097", "U+1098", "U+1099">>,
       <<"U+17E0", "U+17E1", "U+17E2", "U+17E3", "U+17E4", "U+17E5", "U+17E6", "U+17E7", "U+17E8", "U+17E9">>,
       <<"U+1810", "U+1811", "U+1812", "U+1813", "U+1814", "U+1815", "U+1816", "U+1817", "U+1818", "U+1819">>,
       <<"U+1946", "U+1947", "U+1948", "U+1949", "U+194A", "U+194B", "U+194C", "U+194D", "U+194E", "U+194F">>,
       <<"U+19D0", "U+19D1", "U+19D2", "U+19D3", "U+19D4", "U+19D5", "U+19D6", "U+19D7", "U+19D8", "U+19D9">>,
       <<"U+1A80", "U+1A81", "U+1A82", "U+1A83", "U+1A84", "U+1A85", "U+1A86", "U+1A87", "U+1A88", "U+1A89">>,
       <<"U+1A90", "U+1A91", "U+1A92", "U+1A93", "U+1A94", "U+1A95", "U+1A96", "U+1A97", "U+1A98", "U+1A99">>,
       <<"U+1B50", "U+1B51", "U+1B52", "U+1B53", "U+1B54", "U+1B55", "U+1B56", "U+1B57", "U+1B58", "U+1B59">>,
       <<"U+1BB0", "U+1BB1", "U+1BB2", "U+1BB3", "U+1BB4", "U+1BB5", "U+1BB6", "U+1BB7", "U+1BB8", "U+1BB9">>,
       <<"U+1C40", "U+1C41", "U+1C42", "U+1C43", "U+1C44", "U+1C45", "U+1C46", "U+1C47", "U+1C48", "U+1C49">>,
       <<"U+1C50", "U+1C51", "U+1C52", "U+1C53", "U+1C54", "U+1C55", "U+1C56", "U+1C57", "U+1C58", "U+1C59">>,
       <<"U+A620", "U+A621", "U+A622", "U+A623", "U+A624", "U+A625", "U+A626", "U+A627", "U+A628", "U+A629">>,
       <<"U+A8D0", "U+A8D1", "U+A8D2", "U+A8D3", "U+A8D4", "U+A8D5", "U+A8D6", "U+A8D7", "U+A8D8", "U+A8D9">>,
       <<"U+A900", "U+A901", "U+A902", "U+A903", "U+A904", "U+A905", "U+A906", "U+A907", "U+A908", "U+A909">>,
       <<"U+A9D0", "U+A9D1", "U+A9D2", "U+A9D3", "U+A9D4", "U+A9D5", "U+A9D6", "U+A9D7", "U+A9D8", "U+A9D9">>,
       <<"U+A9F0", "U+A9F1", "U+A9F2", "U+A9F3", "U+A9F4", "U+A9F5", "U+A9F6", "U+A9F7", "U+A9F8", "U+A9F9">>,
       <<"U+AA50", "U+AA51", "U+AA52", "U+AA53", "U+AA54", "U+AA55", "U+AA56", "U+AA57", "U+AA58", "U+AA59">>,
       <<"U+ABF0", "U+ABF1", "U+ABF2", "U+ABF3", "U+ABF4", "U+ABF5", "U+ABF6", "U+ABF7", "U+ABF8", "U+ABF9">>,
       <<"U+FF10", "U+FF11", "U+FF12", "U+FF13", "U+FF14", "U+FF15", "U+FF16", "U+FF17", "U+FF18", "U+FF19">>,
       <<"U+104A0", "U+104A1", "U+104A2", "U+104A3", "U+104A4", "U+104A5", "U+104A6", "U+104A7", "U+104A8", "U+104A9">>,
       <<"U+10D30", "U+10D31", "U+10D32", "U+10D33", "U+10D34", "U+10D35", "U+10D36", "U+10D37", "U+10D38", "U+10D39">>,
       <<"U+11066", "U+11067", "U+11068", "U+11069", "U+1106A", "U+1106B", "U+1106C", "U+1106D", "U+1106E", "U+1106F">>,
       <<"U+110F0", "U+110F1", "U+110F2", "U+110F3", "U+110F4", "U+110F5", "U+110F6", "U+110F7", "U+110F8", "U+110F9">>,
       <<"U+11136", "U+11137", "U+11138", "U+11139", "U+1113A", "U+1113B", "U+1113C", "U+1113D", "U+1113E", "U+1113F">>,
       <<"U+111D0", "U+111D1", "U+111D2", "U+111D3", "U+111D4", "U+111D5", "U+111D6", "U+111D7", "U+111D8", "U+111D9">>,
       <<"U+112F0", "U+112F1", "U+112F2", "U+112F3", "U+112F4", "U+112F5", "U+112F6", "U+112F7", "U+112F8", "U+112F9">>,
       <<"U+11450", "U+11451", "U+11452", "U+11453", "U+11454", "U+11455", "U+11456", "U+11457", "U+11458", "U+11459">>,
       <<"U+114D0", "U+114D1", "U+114D2", "U+114D3", "U+114D4", "U+114D5", "U+114D6", "U+114D7", "U+114D8", "U+114D9">>,
       <<"U+11650", "U+11651", "U+11652", "U+11653", "U+11654", "U+11655", "U+11656", "U+11657", "U+11658", "U+11659">>,
       <<"U+116C0", "U+116C1", "U+116C2", "U+116C3", "U+116C4", "U+116C5", "U+116C6", "U+116C7", "U+116C8", "U+116C9">>,
       <<"U+11730", "U+11731", "U+11732", "U+11733", "U+11734", "U+11735", "U+11736", "U+11737", "U+11738", "U+11739">>,
       <<"U+118E0", "U+118E1", "U+118E2", "U+118E3", "U+118E4", "U+118E5", "U+118E6", "U+118E7", "U+118E8", "U+118E9">>,
       <<"U+11950", "U+11951", "U+11952", "U+11953", "U+11954", "U+11955", "U+11956", "U+11957", "U+11958", "U+11959">>,
       <<"U+11C50", "U+11C51", "U+11C52", "U+11C53", "U+11C54", "U+11C55", "U+11C56", "U+11C57", "U+11C58", "U+11C59">>,
       <<"U+11D50", "U+11D51", "U+11D52", "U+11D53", "U+11D54", "U+11D55", "U+11D56", "U+11D57", "U+11D58", "U+11D59">>,
       <<"U+11DA0", "U+11DA1", "U+11DA2", "U+11DA3", "U+11DA4", "U+11DA5", "U+11DA6", "U+11DA7", "U+11DA8", "U+11DA9">>,
       <<"U+16A60", "U+16A61", "U+16A62", "U+16A63", "U+16A64", "U+16A65", "U+16A66", "U+16A67", "U+16A68", "U+16A69">>,
       <<"U+16AC0", "U+16AC1", "U+16AC2", "U+16AC3", "U+16AC4", "U+16AC5", "U+16AC6", "U+16AC7", "U+16AC8", "U+16AC9">>,
       <<"U+16B50", "U+16B51", "U+16B52", "U+16B53", "U+16B54", "U+16B55", "U+16B56", "U+16B57", "U+16B58", "U+16B59">>,
       <<"U+1D7CE", "U+1D7CF", "U+1D7D0", "U+1D7D1", "U+1D7D2", "U+1D7D3", "U+1D7D4", "U+1D7D5", "U+1D7D6", "U+1D7D7">>,
       <<"U+1D7D8", "U+1D7D9", "U+1D7DA", "U+1D7DB", "U+1D7DC", "U+1D7DD", "U+1D7DE", "U+1D7DF", "U+1D7E0", "U+1D7E1">>,
       <<"U+1D7E2", "U+1D7E3", "U+1D7E4", "U+1D7E5", "U+1D7E6", "U+1D7E7", "U+1D7E8", "U+1D7E9", "U+1D7EA", "U+1D7EB">>,
       <<"U+1D7EC", "U+1D7ED", "U+1D7EE", "U+1D7EF", "U+1D7F0", "U+1D7F1", "U+1D7F2", "U+1D7F3", "U+1D7F4", "U+1D7F5">>,
       <<"U+1D7F6", "U+1D7F7", "U+1D7F8", "U+1D7F9", "U+1D7FA", "U+1D7FB", "U+1D7FC", "U+1D7FD", "U+1D7FE", "U+1D7FF">>,
       <<"U+1E140", "U+1E141", "U+1E142", "U+1E143", "U+1E144", "U+1E145", "U+1E146", "U+1E147", "U+1E148", "U+1E149">>,
       <<"U+1E2F0", "U+1E2F1", "U+1E2F2", "U+1E2F3", "U+1E2F4", "U+1E2F5", "U+1E2F6", "U+1E2F7", "U+1E2F8", "U+1E2F9">>,
       <<"U+1E950", "U+1E951", "U+1E952", "U+1E953", "U+1E954", "U+1E955", "U+1E956", "U+1E957", "U+1E958", "U+1E959">>,
       <<"U+1FBF0", "U+1FBF1", "U+1FBF2", "U+1FBF3", "U+1FBF4", "U+1FBF5", "U+1FBF6", "U+1FBF7", "U+1FBF8", "U+1FBF9">>
    >>

\* \d
IsDigit(c) ==
    \/ c \in {"0", "1", "2", "3", "4", "5", "6", "7", "8", "9"}
    \/ \E r \in 1..Len(UnicodeDigits) : \E v \in 1..10 : UnicodeDigits[r][v] = c

DigitVal(c) ==
    CASE c = "0" -> 0 [] c = "1" -> 1 [] c = "2" -> 2 [] c = "3" -> 3 [] c = "4" -> 4
      [] c = "5" -> 5 [] c = "6" -> 6 [] c = "7" -> 7 [] c = "8" -> 8 [] c = "9" -> 9
      [] OTHER -> CHOOSE v \in 0..9 : \E r \in 1..Len(UnicodeDigits) : UnicodeDigits[r][v + 1] = c

\* '%0<w>d' % n
RECURSIVE Pad(_, _)
Pad(n, w) == IF w = 0 THEN <<>> ELSE Append(Pad(n \div 10, w - 1), Digits[(n % 10) + 1])

\* int(s): blanks around the number are dropped, one sign may lead it, and
\* single underscores may stand between digits
IsSpace(c) ==
    c \in {" ", "\t", "\n", "\r", "\f",
         "U+000B", "U+0085", "U+00A0", "U+1680", "U+2000", "U+2001",
         "U+2002", "U+2003", "U+2004", "U+2005", "U+2006", "U+2007",
         "U+2008", "U+2009", "U+200A", "U+2028", "U+2029", "U+202F",
         "U+205F", "U+3000"}

RECURSIVE Strip(_)
Strip(s) ==
    IF s # <<>> /\ IsSpace(s[1]) THEN Strip(Tail(s))
    ELSE IF s # <<>> /\ IsSpace(s[Len(s)]) THEN Strip(SubSeq(s, 1, Len(s) - 1))
    ELSE s

\* the text of the number without blanks and sign
IntText(s) ==
    LET t == Strip(s)
    IN  IF t # <<>> /\ t[1] \in {"+", "-"} THEN Tail(t) ELSE t

IntNegative(s) ==
    LET t == Strip(s)
    IN  t # <<>> /\ t[1] = "-"

\* int(s) returns a value; it raises ValueError otherwise
IntAccepts(s) ==
    LET t == IntText(s)
    IN  /\ Len(t) > 0
        /\ \A i \in 1..Len(t) :
              \/ IsDigit(t[i])
              \/ /\ t[i] = "_"
                 /\ 1 < i /\ i < Len(t)
                 /\ IsDigit(t[i - 1]) /\ IsDigit(t[i + 1])

RECURSIVE DigitsValue(_)
DigitsValue(t) ==
    IF t = <<>> THEN 0
    ELSE IF t[Len(t)] = "_" THEN DigitsValue(SubSeq(t, 1, Len(t) - 1))
    ELSE 10 * DigitsValue(SubSeq(t, 1, Len(t) - 1)) + DigitVal(t[Len(t)])

\* the value of int(s), for a string int() accepts
IntOf(s) ==
    LET v == DigitsValue(IntText(s))
    IN  IF IntNegative(s) THEN 0 - v ELSE v

\* s.rstrip(c)
RECURSIVE RStrip(_, _)
RStrip(s, c) == IF s # <<>> /\ s[Len(s)] = c THEN RStrip(SubSeq(s, 1, Len(s) - 1), c) ELSE s

\* s.split(c): the pieces of s between occurrences of c
RECURSIVE Split(_, _)
Split(s, c) ==
    IF \E i \in 1..Len(s) : s[i] = c
    THEN LET i == CHOOSE k \in 1..Len(s) : s[k] = c /\ \A j \in 1..(k - 1) : s[j] # c
         IN  <<SubSeq(s, 1, i - 1)>> \o Split(SubSeq(s, i + 1, Len(s)), c)
    ELSE <<s>>

(***************************************************************************)
(* BACKUP_LABEL_RE = re.compile(r"\d{8}T\d{6}Z"), used with .match(): the  *)
(* pattern is anchored at the start of the name only.                      *)
(***************************************************************************)
DateDigits == 8
TimeDigits == 6

BACKUP_LABEL_RE_match(entry) ==
    /\ Len(entry) >= DateDigits + TimeDigits + 2
    /\ \A i \in 1..DateDigits : IsDigit(entry[i])
    /\ entry[DateDigits + 1] = "T"
    /\ \A i \in (DateDigits + 2)..(DateDigits + TimeDigits + 1) : IsDigit(entry[i])
    /\ entry[DateDigits + TimeDigits + 2] = "Z"

\* The label format itself: the whole name is 8 digits, 'T', 6 digits, 'Z'.
IsLabelFormat(entry) ==
    BACKUP_LABEL_RE_match(entry) /\ Len(entry) = DateDigits + TimeDigits + 2

(***************************************************************************)
(* class Label.  Label.__init__ parses the name; it raises ValueError when *)
(* a piece is not an integer or when there are not exactly two pieces.     *)
(***************************************************************************)
LabelParts(label) == Split(RStrip(label, "Z"), "T")

LabelInitRaises(label) ==
    LET parts == LabelParts(label)
    IN  \/ \E i \in 1..Len(parts) : ~IntAccepts(parts[i])
        \/ Len(parts) # 2

LabelInit(label) ==
    LET parts == LabelParts(label)
    IN  [label |-> label, date |-> IntOf(parts[1]), time |-> IntOf(parts[2])]

\* Label.__lt__
Label_lt(self, other) == self.date <= other.date /\ self.time < other.time

\* Label.__str__
Label_str(self) == self.label

(***************************************************************************)
(* bisect.insort(a, x): insort_right, comparing with x < a[mid] only.      *)
(***************************************************************************)
RECURSIVE BisectRight(_, _, _, _)
BisectRight(a, x, lo, hi) ==
    IF lo < hi
    THEN LET mid == (lo + hi) \div 2
         IN  \* a is 1-based here, Python's a[mid] is a[mid + 1]
             IF Label_lt(x, a[mid + 1]) THEN BisectRight(a, x, lo, mid)
                                        ELSE BisectRight(a, x, mid + 1, hi)
    ELSE lo

Insort(a, x) ==
    LET lo == BisectRight(a, x, 0, Len(a))
    IN  SubSeq(a, 1, lo) \o <<x>> \o SubSeq(a, lo + 1, Len(a))

(***************************************************************************)
(* get_current_labels: the loop over the lines of the listing.  A line is  *)
(* a sequence of whitespace-separated tokens; line.split()[-1] is its last *)
(* token.  The result is either the list of names or a ValueError.         *)
(***************************************************************************)
LineEntry(line) == line[Len(line)]

RECURSIVE ParseLines(_, _)
ParseLines(out, labels) ==
    IF out = <<>> THEN [raised |-> FALSE, labels |-> labels]
    ELSE LET entry == LineEntry(Head(out))
         IN  IF BACKUP_LABEL_RE_match(entry)
             THEN IF LabelInitRaises(entry)
                  THEN [raised |-> TRUE, labels |-> <<>>]
                  ELSE ParseLines(Tail(out), Insort(labels, LabelInit(entry)))
             ELSE ParseLines(Tail(out), labels)

get_current_labels(out) ==
    LET r == ParseLines(out, <<>>)
    IN  [raised |-> r.raised,
         labels |-> [i \in 1..Len(r.labels) |-> Label_str(r.labels[i])]]

(***************************************************************************)
(* The inputs of the model: the instants the clock can show, the names a   *)
(* destination can hold, the WAL segments.                                 *)
(***************************************************************************)
Dates == {20230101, 20230102}
Times == {0, 120000}
Instants == [date : Dates, time : Times]

\* the format with the time of day ahead of the date
strftime_TimeFirst(now) == Pad(now.time, TimeDigits) \o <<"T">> \o Pad(now.date, DateDigits) \o <<"Z">>

\* datetime.utcnow().strftime('%Y%m%dT%H%M%SZ'), the instant given as the
\* integers %Y%m%d and %H%M%S
strftime(now) == Pad(now.date, DateDigits) \o <<"T">> \o Pad(now.time, TimeDigits) \o <<"Z">>

LabelNames == {strftime(now) : now \in Instants}

\* datetime.utcnow(): the run takes place on the later of the two days
ClockInstants == {now \in Instants : now.date = 20230102}

\* names that are not backups but can sit in the destination
NotABackup == <<"n", "o", "t", "a", "b", "a", "c", "k", "u", "p">>
LabelThenZ == strftime([date |-> 20230101, time |-> 120000]) \o <<"Z">>
LabelThenOld == strftime([date |-> 20230102, time |-> 0]) \o <<".", "o", "l", "d">>
JunkNames == {NotABackup, LabelThenZ, LabelThenOld}

Names == LabelNames \cup JunkNames

Dot == <<".">>
WalArchive == <<"w", "a", "l", "_", "a", "r", "c", "h", "i", "v", "e">>

None == <<>>

\* The (date, time) pair of a name in label format.
DateOf(name) == IntOf(SubSeq(name, 1, DateDigits))
TimeOf(name) == IntOf(SubSeq(name, DateDigits + 2, DateDigits + TimeDigits + 1))

\* The order of the (date, time) pairs: date first, then time.
Earlier(a, b) ==
    \/ DateOf(a) < DateOf(b)
    \/ DateOf(a) = DateOf(b) /\ TimeOf(a) < TimeOf(b)

\* The WAL segment at which the backup called name started: pg_stop_backup
\* reports it in the backup_label text, and later backups start at later
\* segments.  Segments are numbered from 1.
SegOf(name) == Cardinality({n \in LabelNames : Earlier(n, name)}) + 1
Segments == 1..Cardinality(LabelNames)

\* The texts open(backup_label_path).read() can return for a backup: lines,
\* each either a "START WAL LOCATION: ... (file <segment>)" line or another.
StartLine(seg) == [start |-> TRUE, file |-> seg]
OtherLine == [start |-> FALSE, file |-> 0]
BackupLabelTexts(name) ==
    { <<>>,
      <<OtherLine>>,
      <<StartLine(SegOf(name)), OtherLine>>,
      <<OtherLine, StartLine(SegOf(name)), OtherLine>> }

\* LAST_SEGMENT_RE.match(line)
LAST_SEGMENT_RE_match(line) == line.start

(***************************************************************************)
(* rsync --list-only of the destination: one line per entry.  "." and      *)
(* wal_archive head the listing, the other entries follow in any order.    *)
(***************************************************************************)
Line(name) == <<"drwxr-xr-x", "4096", "2023/01/01", "00:00:00", name>>

RECURSIVE Orders(_)
Orders(S) == IF S = {} THEN {<<>>}
             ELSE UNION {{<<Line(x)>> \o o : o \in Orders(S \ {x})} : x \in S}

Listings(present) == {<<Line(Dot), Line(WalArchive)>> \o o : o \in Orders(present)}

\* Every result get_current_labels can return for a set of entries, over the
\* orders in which rsync can list them.
ListingResults(present) == {get_current_labels(out) : out \in Listings(present)}

(***************************************************************************)
(* State.                                                                  *)
(***************************************************************************)
VARIABLES
    args,            \* the parsed command line: backup, keep, clean_archive, rsync_connect_opts
    pc,              \* the statement main (or a function it called) is at
    label,           \* state._label: None until State.label is first read
    hot,             \* the database is in hot-backup mode
    dest,            \* the destination: name -> "absent" | "empty" | "full"
    archive,         \* the WAL segments in <backup_path>/wal_archive
    labels,          \* the local labels of cleanup_old_backups / cleanup_wal_archive
    delete_labels,   \* the labels handed to rsync_delete_dirs
    i,               \* rsync_delete_dirs: index of the label the drain loop is at
    scratch,         \* rsync_delete_dirs: the temporary empty directory exists
    raising,         \* rsync_delete_dirs: the exception passing through finally, "" for none
    oldest_label,    \* cleanup_wal_archive: labels[0]
    backup_label,    \* cleanup_wal_archive: [read: "no" | "failed" | "ok", text]
    last_segment,    \* cleanup_wal_archive: <<>> for None, <<segment>> otherwise
    tablespace_map,  \* finalize_backup: row[2] is truthy
    calls,           \* external calls issued so far: [by, op, arg, ok]
    logs,            \* log records so far: <<level, message>>
    exc,             \* the exception that ended the run, "" for none
    inv,             \* number of the invocation (of main, or of rsync_delete_dirs used directly)
    after1,          \* the destination when this invocation started; completed: the one
                     \* before it returned normally
    clock            \* datetime.datetime.utcnow(): the UTC time now

vars == <<args, pc, label, hot, dest, archive, labels, delete_labels, i, scratch,
          raising, oldest_label, backup_label, last_segment, tablespace_map, calls, logs, exc,
          inv, after1, clock>>

\* by: the function that issued the call
Call(by, op, arg, ok) == [by |-> by, op |-> op, arg |-> arg, ok |-> ok]

Present == {n \in Names : dest[n] # "absent"}

\* parse_args: --keep defaults to -1
Keeps == (-1)..MaxKeep
Args == [backup : BOOLEAN, keep : Keeps, clean_archive : BOOLEAN, rsync_connect_opts : BOOLEAN]

\* The destinations a run can find: at most MaxBackups backups, named by
\* labels, and at most one other name.
Destinations ==
    { [n \in Names |-> IF n \in B \cup J THEN "full" ELSE "absent"] :
        B \in {X \in SUBSET LabelNames : Cardinality(X) <= MaxBackups},
        J \in {X \in SUBSET JunkNames : Cardinality(X) <= 1} }

Init ==
    /\ args \in Args
    /\ pc = "start"
    /\ label = None
    /\ hot = FALSE
    /\ dest \in Destinations
    /\ archive = Segments
    /\ labels = <<>>
    /\ delete_labels = <<>>
    /\ i = 1
    /\ scratch = FALSE
    /\ raising = ""
    /\ oldest_label = None
    /\ backup_label = [read |-> "no", text |-> <<>>]
    /\ last_segment = <<>>
    /\ tablespace_map = FALSE
    /\ calls = <<>>
    /\ logs = <<>>
    /\ exc = ""
    /\ inv = 1
    /\ after1 = [dest |-> dest, completed |-> FALSE]
    /\ clock \in ClockInstants

(***************************************************************************)
(* main: the order of its statements.                                      *)
(***************************************************************************)
\* main with the mirror started ahead of pg_start_backup
BackupOrder_MirrorFirst == <<"connect", "show", "mirror", "begin", "stop", "write_label">>

\* the external calls of initiate_backup, perform_backup and finalize_backup
BackupOrder == <<"connect", "begin", "show", "mirror", "stop", "write_label">>

NextBackupPc(p) ==
    LET k == CHOOSE j \in 1..Len(BackupOrder) : BackupOrder[j] = p
    IN  BackupOrder[k + 1]

\* if args.clean_archive: cleanup_wal_archive(...)
AfterKeepPc == IF args.clean_archive THEN "wal_list" ELSE "finish"

\* retention entered for every keep count that is not negative
AfterBackupPc_NonNegative == IF args.keep >= 0 THEN "list" ELSE AfterKeepPc

\* if args.keep > 0: cleanup_old_backups(...)
AfterBackupPc == IF args.keep > 0 THEN "list" ELSE AfterKeepPc

\* if args.backup: ...
StartPc == IF args.backup THEN BackupOrder[1] ELSE AfterBackupPc

\* an exception that is swallowed: main goes on with the statement after the backup
Uncaught_Continue(e) == pc' = AfterBackupPc /\ hot' = hot /\ exc' = e

\* an exception handler that takes the database out of hot-backup mode
Uncaught_Rollback(e) == pc' = "failed" /\ hot' = FALSE /\ exc' = e

\* An exception nothing catches: it leaves main, the process exits with a
\* non-zero status.  Nothing is undone on the way out.
Uncaught(e) == pc' = "failed" /\ hot' = hot /\ exc' = e

\* State.rsync_cmd: with connection options set, line 98 reads the global
\* name rsync_opts, which does not exist: NameError.
RsyncCmdRaises == args.rsync_connect_opts

Start ==
    /\ pc = "start"
    /\ pc' = StartPc
    /\ UNCHANGED <<args, clock, label, hot, exc, dest, archive, labels, delete_labels, i, scratch,
                   raising, oldest_label, backup_label, last_segment, tablespace_map, calls, logs,
                   inv, after1>>

(***************************************************************************)
(* The backup: initiate_backup, perform_backup, finalize_backup.           *)
(***************************************************************************)
cleanupVars == <<labels, delete_labels, i, scratch, raising, oldest_label, backup_label, last_segment,
                 inv, after1>>

\* State.label without the memo: formatted from the clock on every read
State_label_Unmemoized(now) == strftime(now)

\* State.label: generated from the clock on the first read, then reused
State_label(now) == IF label = None THEN strftime(now) ELSE label

\* Time passes while a call is under way: the instants the clock can show
\* after it has shown t.  The clock does not go back.
Later(t) == {u \in ClockInstants : u.date > t.date \/ (u.date = t.date /\ u.time >= t.time)}

\* State.conn: psycopg2.connect('dbname=postgres'), on the first use of state.cursor
Connect ==
    /\ pc = "connect"
    /\ \/ /\ calls' = Append(calls, Call("initiate_backup", "connect", None, TRUE))
          /\ pc' = NextBackupPc(pc)
          /\ hot' = hot
          /\ exc' = exc
       \/ /\ calls' = Append(calls, Call("initiate_backup", "connect", None, FALSE))
          /\ Uncaught("psycopg2.Error")
    /\ UNCHANGED <<args, clock, label, dest, archive, tablespace_map, logs>>
    /\ UNCHANGED cleanupVars

\* initiate_backup: pg_start_backup(label, false, false)
InitiateBackup ==
    /\ pc = "begin"
    /\ clock' \in Later(clock)
    /\  /\ label' = State_label(clock)
        /\ \/ /\ calls' = Append(calls, Call("initiate_backup", "begin", label', TRUE))
              /\ hot' = TRUE /\ exc' = exc
              /\ pc' = NextBackupPc(pc)
           \/ /\ calls' = Append(calls, Call("initiate_backup", "begin", label', FALSE))
              /\ Uncaught("psycopg2.Error")
    /\ UNCHANGED <<args, dest, archive, tablespace_map, logs>>
    /\ UNCHANGED cleanupVars

\* perform_backup, lines 159-160: SHOW data_directory
ShowDataDirectory ==
    /\ pc = "show"
    /\ \/ /\ calls' = Append(calls, Call("perform_backup", "show", None, TRUE))
          /\ pc' = NextBackupPc(pc)
          /\ hot' = hot
          /\ exc' = exc
       \/ /\ calls' = Append(calls, Call("perform_backup", "show", None, FALSE))
          /\ Uncaught("psycopg2.Error")
    /\ UNCHANGED <<args, clock, label, dest, archive, tablespace_map, logs>>
    /\ UNCHANGED cleanupVars

\* the exit statuses of the rsync that mirrors the data directory:
\* 0, 23 (partial transfer due to error), 24 (some source files vanished)
ExitCodes == {0, 23, 24}

\* every exit status tolerated
MirrorTolerated_Any(rc) == TRUE

\* except subprocess.CalledProcessError as exc: if exc.returncode != 24: raise
MirrorTolerated(rc) == rc = 24

\* perform_backup, lines 162-177: the mirror onto <backup_path>/<label>
Mirror ==
    /\ pc = "mirror"
    /\ \/ /\ RsyncCmdRaises
          /\ Uncaught("NameError")
          /\ UNCHANGED <<label, dest, calls, clock>>
       \/ /\ ~RsyncCmdRaises
          /\ clock' \in Later(clock)
          /\ \E rc \in ExitCodes :
              /\ label' = State_label(clock)
              /\ calls' = Append(calls, Call("perform_backup", "mirror", <<label', rc>>, rc = 0))
              /\ IF rc = 0 \/ MirrorTolerated(rc)
                 THEN /\ dest' = [dest EXCEPT ![label'] = "full"]
                      /\ pc' = NextBackupPc(pc)
                      /\ hot' = hot
                      /\ exc' = exc
                 ELSE \* a failed transfer may have created the directory
                      /\ dest' \in {dest, [dest EXCEPT ![label'] = "full"]}
                      /\ Uncaught("CalledProcessError")
    /\ UNCHANGED <<args, archive, tablespace_map, logs>>
    /\ UNCHANGED cleanupVars

\* finalize_backup, lines 196-201: pg_stop_backup(false, true) and its row
StopBackup ==
    /\ pc = "stop"
    /\ \/ /\ \E tm \in BOOLEAN : tablespace_map' = tm
          /\ calls' = Append(calls, Call("finalize_backup", "end", None, TRUE))
          /\ hot' = FALSE /\ exc' = exc
          /\ pc' = NextBackupPc(pc)
       \/ /\ calls' = Append(calls, Call("finalize_backup", "end", None, FALSE))
          /\ Uncaught("psycopg2.Error")
          /\ UNCHANGED tablespace_map
    /\ UNCHANGED <<args, clock, label, dest, archive, logs>>
    /\ UNCHANGED cleanupVars

BackupComplete == Append(logs, <<"info", "Backup complete">>)

\* write_backup_file(backup_path, backup_label, 'backup_label')
WriteBackupLabel ==
    /\ pc = "write_label"
    /\ clock' \in Later(clock)
    /\  /\ label' = State_label(clock)
        /\ \/ /\ calls' = Append(calls, Call("write_backup_file", "write", <<label', "backup_label">>, TRUE))
              /\ dest' = [dest EXCEPT ![label'] = "full"]
              /\ pc' = IF tablespace_map THEN "write_tsmap" ELSE AfterBackupPc
              /\ logs' = IF tablespace_map THEN logs ELSE BackupComplete
              /\ hot' = hot
              /\ exc' = exc
           \/ /\ calls' = Append(calls, Call("write_backup_file", "write", <<label', "backup_label">>, FALSE))
              /\ Uncaught("CalledProcessError")
              /\ UNCHANGED <<dest, logs>>
    /\ UNCHANGED <<args, archive, tablespace_map>>
    /\ UNCHANGED cleanupVars

\* if tablespace_map: write_backup_file(backup_path, tablespace_map, 'tablespace_map')
WriteTablespaceMap ==
    /\ pc = "write_tsmap"
    /\ clock' \in Later(clock)
    /\  /\ label' = State_label(clock)
        /\ \/ /\ calls' = Append(calls, Call("write_backup_file", "write", <<label', "tablespace_map">>, TRUE))
              /\ pc' = AfterBackupPc
              /\ logs' = BackupComplete
              /\ hot' = hot
              /\ exc' = exc
           \/ /\ calls' = Append(calls, Call("write_backup_file", "write", <<label', "tablespace_map">>, FALSE))
              /\ Uncaught("CalledProcessError")
              /\ UNCHANGED logs
    /\ UNCHANGED <<args, dest, archive, tablespace_map>>
    /\ UNCHANGED cleanupVars

(***************************************************************************)
(* Retention: cleanup_old_backups and rsync_delete_dirs.                   *)
(***************************************************************************)
Range(seq) == {seq[k] : k \in 1..Len(seq)}

\* delete_labels = labels[:(len(labels) - keep)]: a stop beyond the end of
\* the list is the end of the list, a negative stop counts from the end
OldestBut(ls, keep) ==
    LET n == Len(ls) - keep
        stop == IF n > Len(ls) THEN Len(ls)
                ELSE IF n >= 0 THEN n
                ELSE IF Len(ls) + n >= 0 THEN Len(ls) + n
                ELSE 0
    IN  SubSeq(ls, 1, stop)

\* cleanup_old_backups, lines 245-248: list, then select
ListForRetention ==
    /\ pc = "list"
    /\ \/ /\ RsyncCmdRaises
          /\ Uncaught("NameError")
          /\ UNCHANGED <<labels, delete_labels, calls>>
       \/ /\ ~RsyncCmdRaises
          /\ calls' = Append(calls, Call("cleanup_old_backups", "list", Present, FALSE))
          /\ Uncaught("CalledProcessError")
          /\ UNCHANGED <<labels, delete_labels>>
       \/ /\ ~RsyncCmdRaises
          /\ calls' = Append(calls, Call("cleanup_old_backups", "list", Present, TRUE))
          /\ \E r \in ListingResults(Present) :
              IF r.raised
              THEN /\ Uncaught("ValueError")
                   /\ UNCHANGED <<labels, delete_labels>>
              ELSE /\ labels' = r.labels
                   /\ hot' = hot
                   /\ exc' = exc
                   /\ IF Len(r.labels) > args.keep
                      THEN /\ delete_labels' = OldestBut(r.labels, args.keep)
                           /\ pc' = "rm_mkdtemp"
                      ELSE /\ delete_labels' = <<>>
                           /\ pc' = AfterKeepPc
    /\ UNCHANGED <<args, clock, label, dest, archive, i, scratch, raising, oldest_label,
                   backup_label, last_segment, tablespace_map, logs, inv, after1>>

\* tempfile.mkdtemp(prefix="postgresql_backup_empty_"), before the try
Mkdtemp ==
    /\ pc = "rm_mkdtemp"
    /\ \/ /\ scratch' = TRUE
          /\ i' = 1
          /\ raising' = ""
          /\ pc' = IF delete_labels = <<>> THEN "rm_collapse" ELSE "rm_drain"
       \/ /\ raising' = "OSError"
          /\ pc' = "rm_raised"
          /\ UNCHANGED <<scratch, i>>
    /\ UNCHANGED <<args, clock, label, hot, exc, dest, archive, labels, delete_labels, oldest_label,
                   backup_label, last_segment, tablespace_map, calls, logs, inv, after1>>

\* the drain aimed at <backup_path> itself: everything under it is deleted
DrainDest_Root(d, name) == [n \in Names |-> "absent"]

\* rsync -r --delete <empty>/ <backup_path>/<label>: the directory ends empty
\* (rsync creates it when it is missing)
DrainDest(d, name) == [d EXCEPT ![name] = "empty"]

\* the drain loop going on to the next label when a drain has failed
Drain_SkipFailed ==
    /\ pc = "rm_drain"
    /\ ~RsyncCmdRaises
    /\ \E ok \in BOOLEAN :
          /\ calls' = Append(calls, Call("rsync_delete_dirs", "drain", delete_labels[i], ok))
          /\ dest' = IF ok THEN DrainDest(dest, delete_labels[i]) ELSE dest
    /\ i' = i + 1
    /\ pc' = IF i = Len(delete_labels) THEN "rm_collapse" ELSE "rm_drain"
    /\ UNCHANGED <<args, clock, label, hot, exc, archive, labels, delete_labels, scratch, raising,
                   oldest_label, backup_label, last_segment, tablespace_map, logs, inv, after1>>

\* lines 228-232: one pass of the drain loop
Drain ==
    /\ pc = "rm_drain"
    /\ \/ /\ RsyncCmdRaises
          /\ raising' = "NameError"
          /\ pc' = "rm_finally"
          /\ UNCHANGED <<dest, i, calls>>
       \/ /\ ~RsyncCmdRaises
          /\ calls' = Append(calls, Call("rsync_delete_dirs", "drain", delete_labels[i], FALSE))
          /\ raising' = "CalledProcessError"
          /\ pc' = "rm_finally"
          /\ UNCHANGED <<dest, i>>
       \/ /\ ~RsyncCmdRaises
          /\ calls' = Append(calls, Call("rsync_delete_dirs", "drain", delete_labels[i], TRUE))
          /\ dest' = DrainDest(dest, delete_labels[i])
          /\ i' = i + 1
          /\ pc' = IF i = Len(delete_labels) THEN "rm_collapse" ELSE "rm_drain"
          /\ UNCHANGED raising
    /\ UNCHANGED <<args, clock, label, hot, exc, archive, labels, delete_labels, scratch, oldest_label,
                   backup_label, last_segment, tablespace_map, logs, inv, after1>>

\* the collapse call without --delete: nothing is removed
CollapseDest_NoDelete(d, ls) == d

\* rsync --include <label>... --exclude '*' -d --delete <empty>/ <backup_path>:
\* of the included names, those that are empty directories are deleted
CollapseDest(d, ls) ==
    [n \in Names |-> IF n \in Range(ls) /\ d[n] = "empty" THEN "absent" ELSE d[n]]

\* lines 234-239: the collapse call
Collapse ==
    /\ pc = "rm_collapse"
    /\ \/ /\ RsyncCmdRaises
          /\ raising' = "NameError"
          /\ UNCHANGED <<dest, calls>>
       \/ /\ ~RsyncCmdRaises
          /\ calls' = Append(calls, Call("rsync_delete_dirs", "collapse", delete_labels, FALSE))
          /\ raising' = "CalledProcessError"
          /\ UNCHANGED dest
       \/ /\ ~RsyncCmdRaises
          /\ calls' = Append(calls, Call("rsync_delete_dirs", "collapse", delete_labels, TRUE))
          /\ dest' = CollapseDest(dest, delete_labels)
          /\ UNCHANGED raising
    /\ pc' = "rm_finally"
    /\ UNCHANGED <<args, clock, label, hot, exc, archive, labels, delete_labels, i, scratch,
                   oldest_label, backup_label, last_segment, tablespace_map, logs, inv, after1>>

\* os.rmdir(temp_name) as the last statement of the try block, not in finally
Rmdir_OnlyOnSuccess ==
    /\ pc = "rm_finally"
    /\ scratch' = (raising # "")
    /\ pc' = IF raising # "" THEN "rm_raised" ELSE "rm_return"
    /\ UNCHANGED <<args, clock, label, hot, exc, dest, archive, labels, delete_labels, i, raising,
                   oldest_label, backup_label, last_segment, tablespace_map, calls, logs, inv, after1>>

\* finally: os.rmdir(temp_name)
Rmdir ==
    /\ pc = "rm_finally"
    /\ scratch' = FALSE
    /\ pc' = IF raising # "" THEN "rm_raised" ELSE "rm_return"
    /\ UNCHANGED <<args, clock, label, hot, exc, dest, archive, labels, delete_labels, i, raising,
                   oldest_label, backup_label, last_segment, tablespace_map, calls, logs, inv, after1>>

\* rsync_delete_dirs returned to cleanup_old_backups, which returns to main
CleanupReturn ==
    /\ pc = "rm_return"
    /\ pc' = AfterKeepPc
    /\ UNCHANGED <<args, clock, label, hot, exc, dest, archive, labels, delete_labels, i, scratch,
                   raising, oldest_label, backup_label, last_segment, tablespace_map, calls, logs,
                   inv, after1>>

\* rsync_delete_dirs raised: nothing in cleanup_old_backups or main catches it
CleanupRaised ==
    /\ pc = "rm_raised"
    /\ Uncaught(raising)
    /\ UNCHANGED <<args, clock, label, dest, archive, labels, delete_labels, i, scratch,
                   raising, oldest_label, backup_label, last_segment, tablespace_map, calls, logs,
                   inv, after1>>

(***************************************************************************)
(* Archive cleanup: cleanup_wal_archive.                                   *)
(***************************************************************************)
\* the file of the first line, whether it matches or not
extract_last_segment_FirstLine(text) ==
    IF text = <<>> THEN <<>> ELSE <<Head(text).file>>

\* extract_last_segment_from_backup_label: the file of the first line that
\* matches, <<>> (None) when no line does
RECURSIVE extract_last_segment_from_backup_label(_)
extract_last_segment_from_backup_label(text) ==
    IF text = <<>> THEN <<>>
    ELSE IF LAST_SEGMENT_RE_match(Head(text))
         THEN <<Head(text).file>>
         ELSE extract_last_segment_from_backup_label(Tail(text))

\* cleanup_wal_archive taking the labels cleanup_old_backups listed, without
\* listing again
ListForCutoff_Reused ==
    /\ pc = "wal_list"
    /\ IF labels = <<>>
       THEN /\ logs' = Append(logs, <<"warning", "No backups found">>)
            /\ pc' = "finish"
            /\ UNCHANGED oldest_label
       ELSE /\ oldest_label' = labels[1]
            /\ pc' = "wal_read"
            /\ UNCHANGED logs
    /\ UNCHANGED <<args, clock, label, hot, exc, dest, archive, labels, delete_labels, i, scratch,
                   raising, backup_label, last_segment, tablespace_map, calls, inv, after1>>

\* lines 262-266: list again, take labels[0]
ListForCutoff ==
    /\ pc = "wal_list"
    /\ \/ /\ RsyncCmdRaises
          /\ Uncaught("NameError")
          /\ UNCHANGED <<labels, oldest_label, calls, logs>>
       \/ /\ ~RsyncCmdRaises
          /\ calls' = Append(calls, Call("cleanup_wal_archive", "list", Present, FALSE))
          /\ Uncaught("CalledProcessError")
          /\ UNCHANGED <<labels, oldest_label, logs>>
       \/ /\ ~RsyncCmdRaises
          /\ calls' = Append(calls, Call("cleanup_wal_archive", "list", Present, TRUE))
          /\ \E r \in ListingResults(Present) :
              IF r.raised
              THEN /\ Uncaught("ValueError")
                   /\ UNCHANGED <<labels, oldest_label, logs>>
              ELSE /\ labels' = r.labels
                   /\ hot' = hot
                   /\ exc' = exc
                   /\ IF r.labels = <<>>
                      THEN /\ logs' = Append(logs, <<"warning", "No backups found">>)
                           /\ pc' = "finish"
                           /\ UNCHANGED oldest_label
                      ELSE /\ oldest_label' = r.labels[1]
                           /\ pc' = "wal_read"
                           /\ UNCHANGED logs
    /\ UNCHANGED <<args, clock, label, dest, archive, delete_labels, i, scratch, raising,
                   backup_label, last_segment, tablespace_map, inv, after1>>

\* lines 267-277: read backup_label of the oldest backup, extract the segment.
\* log.exception logs at level ERROR.
ReadBackupLabel ==
    /\ pc = "wal_read"
    /\ \/ /\ backup_label' = [read |-> "failed", text |-> <<>>]
          /\ logs' = Append(logs, <<"error", "Cannot read backup_label">>)
          /\ pc' = "finish"
          /\ UNCHANGED last_segment
       \/ \E text \in BackupLabelTexts(oldest_label) :
            /\ backup_label' = [read |-> "ok", text |-> text]
            /\ last_segment' = extract_last_segment_from_backup_label(text)
            /\ IF last_segment' = <<>>
               THEN /\ logs' = Append(logs, <<"warning", "Could not determine last segment">>)
                    /\ pc' = "finish"
               ELSE /\ logs' = Append(logs, <<"info", "Running pg_archivecleanup">>)
                    /\ pc' = "wal_prune"
    /\ UNCHANGED <<args, clock, label, hot, exc, dest, archive, labels, delete_labels, i, scratch,
                   raising, oldest_label, tablespace_map, calls, inv, after1>>

\* pg_archivecleanup -d <wal_archive> <segment>: removes the segments that
\* precede the given one
Pruned(segs, cutoff) == {x \in segs : x >= cutoff}

\* the errno of an OSError raised when pg_archivecleanup cannot be started:
\* the file does not exist, or it is there and cannot be executed
ENOENT == 2
EACCES == 13
OSErrnos == {ENOENT, EACCES}

\* lines 278-291
ArchiveCleanup ==
    /\ pc = "wal_prune"
    /\ \/ /\ calls' = Append(calls, Call("cleanup_wal_archive", "prune", last_segment[1], TRUE))
          /\ archive' = Pruned(archive, last_segment[1])
          /\ pc' = "finish"
          /\ hot' = hot
          /\ exc' = exc
          /\ UNCHANGED logs
       \/ \* OSError: logged when its errno is ENOENT, raised again in any case
          /\ calls' = Append(calls, Call("cleanup_wal_archive", "prune", last_segment[1], FALSE))
          /\ \E errno \in OSErrnos :
                logs' = IF errno = ENOENT
                        THEN Append(logs, <<"error", "Cannot find pg_archivecleanup">>)
                        ELSE logs
          /\ Uncaught("OSError")
          /\ UNCHANGED archive
       \/ \* CalledProcessError
          /\ calls' = Append(calls, Call("cleanup_wal_archive", "prune", last_segment[1], FALSE))
          /\ Uncaught("CalledProcessError")
          /\ UNCHANGED <<archive, logs>>
    /\ UNCHANGED <<args, clock, label, dest, labels, delete_labels, i, scratch, raising,
                   oldest_label, backup_label, last_segment, tablespace_map, inv, after1>>

\* lines 308-309: main returns, the process exits with status 0
Finish ==
    /\ pc = "finish"
    /\ logs' = Append(logs, <<"info", "Completed">>)
    /\ pc' = "done"
    /\ UNCHANGED <<args, clock, label, hot, exc, dest, archive, labels, delete_labels, i, scratch,
                   raising, oldest_label, backup_label, last_segment, tablespace_map, calls, inv, after1>>

Next ==
    \/ Start
    \/ Connect
    \/ InitiateBackup
    \/ ShowDataDirectory
    \/ Mirror
    \/ StopBackup
    \/ WriteBackupLabel
    \/ WriteTablespaceMap
    \/ ListForRetention
    \/ Mkdtemp
    \/ Drain
    \/ Collapse
    \/ Rmdir
    \/ CleanupReturn
    \/ CleanupRaised
    \/ ListForCutoff
    \/ ReadBackupLabel
    \/ ArchiveCleanup
    \/ Finish

Spec == Init /\ [][Next]_vars

(***************************************************************************)
(* rsync_delete_dirs used on its own: called, and called once more with    *)
(* the same labels after the first call has ended.                         *)
(***************************************************************************)
\* longest list of labels handed to rsync_delete_dirs directly
MaxEntries == 2

RECURSIVE DistinctSeqs(_, _)
DistinctSeqs(S, n) ==
    IF n = 0 THEN {<<>>}
    ELSE {<<>>} \cup UNION {{<<x>> \o t : t \in DistinctSeqs(S \ {x}, n - 1)} : x \in S}

\* backup directories in any condition: missing, emptied, or holding a backup
RemoveDestinations ==
    { [n \in Names |-> IF n \in LabelNames THEN f[n] ELSE "absent"] :
        f \in [LabelNames -> {"absent", "empty", "full"}] }

InitRemove ==
    /\ args \in {a \in Args : ~a.backup /\ a.keep = -1 /\ ~a.clean_archive}
    /\ pc = "rm_mkdtemp"
    /\ label = None
    /\ hot = FALSE
    /\ dest \in RemoveDestinations
    /\ archive = Segments
    /\ labels = <<>>
    /\ delete_labels \in DistinctSeqs(LabelNames, MaxEntries)
    /\ i = 1
    /\ scratch = FALSE
    /\ raising = ""
    /\ oldest_label = None
    /\ backup_label = [read |-> "no", text |-> <<>>]
    /\ last_segment = <<>>
    /\ tablespace_map = FALSE
    /\ calls = <<>>
    /\ logs = <<>>
    /\ exc = ""
    /\ inv = 1
    /\ after1 = [dest |-> dest, completed |-> FALSE]
    /\ clock \in ClockInstants

\* the first call has returned or raised; the caller calls again
Reinvoke ==
    /\ pc \in {"rm_return", "rm_raised"}
    /\ inv = 1
    /\ inv' = 2
    /\ after1' = [dest |-> dest, completed |-> pc = "rm_return"]
    /\ pc' = "rm_mkdtemp"
    /\ UNCHANGED <<args, clock, label, hot, exc, dest, archive, labels, delete_labels, i, scratch,
                   raising, oldest_label, backup_label, last_segment, tablespace_map,
                   calls, logs>>

NextRemove ==
    \/ Mkdtemp
    \/ Drain
    \/ Collapse
    \/ Rmdir
    \/ Reinvoke

SpecRemove == InitRemove /\ [][NextRemove]_vars

(***************************************************************************)
(* A maintenance run (--keep, without --backup) that failed inside         *)
(* rsync_delete_dirs, run again: the operator starts the same command line *)
(* once more.  The new process has a new                                   *)
(* State, new locals and a new log; the destination, the archive, the     *)
(* scratch directory and the database are as the failed run left them.     *)
(***************************************************************************)
Rerun ==
    /\ pc = "failed"
    /\ raising # ""
    /\ ~args.backup
    /\ inv = 1
    /\ inv' = 2
    /\ after1' = [dest |-> dest, completed |-> FALSE]
    /\ clock' \in Later(clock)
    /\ pc' = "start"
    /\ label' = None
    /\ labels' = <<>>
    /\ delete_labels' = <<>>
    /\ i' = 1
    /\ raising' = ""
    /\ oldest_label' = None
    /\ backup_label' = [read |-> "no", text |-> <<>>]
    /\ last_segment' = <<>>
    /\ tablespace_map' = FALSE
    /\ exc' = ""
    /\ calls' = <<>>
    /\ logs' = <<>>
    /\ UNCHANGED <<args, hot, dest, archive, scratch>>

NextRerun ==
    \/ Next
    \/ Rerun

SpecRerun == Init /\ [][NextRerun]_vars

(***************************************************************************)
(* State.label on its own: read in one process, and read again in a        *)
(* process started at a later instant.  utcnow() has microseconds, which   *)
(* the format of the label leaves out.                                     *)
(***************************************************************************)
\* most processes that read their label
MaxReadings == 2

ReadingDates == {20221231, 20230101, 20230930, 20231001}
ReadingTimes == {0, 95959, 100000, 235959}
Microseconds == {0, 500000}

\* the values of datetime.datetime.utcnow()
Readings == [date : ReadingDates, time : ReadingTimes, microsecond : Microseconds]

\* t1 < t2 on datetime values
Before(t1, t2) ==
    \/ t1.date < t2.date
    \/ t1.date = t2.date /\ t1.time < t2.time
    \/ t1.date = t2.date /\ t1.time = t2.time /\ t1.microsecond < t2.microsecond

InitLabel ==
    /\ args = [backup |-> TRUE, keep |-> -1, clean_archive |-> FALSE, rsync_connect_opts |-> FALSE]
    /\ pc = "label"
    /\ label = None
    /\ hot = FALSE
    /\ dest = [n \in Names |-> "absent"]
    /\ archive = Segments
    /\ labels = <<>>
    /\ delete_labels = <<>>
    /\ i = 1
    /\ scratch = FALSE
    /\ raising = ""
    /\ oldest_label = None
    /\ backup_label = [read |-> "no", text |-> <<>>]
    /\ last_segment = <<>>
    /\ tablespace_map = FALSE
    /\ calls = <<>>
    /\ logs = <<>>
    /\ exc = ""
    /\ inv = 1
    /\ after1 = [dest |-> dest, completed |-> FALSE]
    /\ clock \in Readings

\* state.label is read: lines 116-119
ReadLabel ==
    /\ pc = "label"
    /\ label' = State_label(clock)
    /\ calls' = Append(calls, Call("State", "label", <<clock, label'>>, TRUE))
    /\ logs' = Append(logs, <<"info", "Backup label is">>)
    /\ pc' = "label_read"
    /\ UNCHANGED <<args, clock, hot, dest, archive, labels, delete_labels, i, scratch, raising,
                   oldest_label, backup_label, last_segment, tablespace_map, exc, inv, after1>>

\* a new process, with a new State, at a later instant
NewState ==
    /\ pc = "label_read"
    /\ Len(calls) < MaxReadings
    /\ clock' \in {t \in Readings : Before(clock, t)}
    /\ label' = None
    /\ pc' = "label"
    /\ UNCHANGED <<args, hot, dest, archive, labels, delete_labels, i, scratch, raising,
                   oldest_label, backup_label, last_segment, tablespace_map, calls, logs, exc,
                   inv, after1>>

NextLabel ==
    \/ ReadLabel
    \/ NewState

SpecLabel == InitLabel /\ [][NextLabel]_vars

(***************************************************************************)
(* Properties.                                                             *)
(***************************************************************************)
Idx == 1..Len(calls)

Issued(by, op) == {k \in Idx : calls[k].by = by /\ calls[k].op = op}

Succeeded(by, op) == {k \in Issued(by, op) : calls[k].ok}

\* retention has returned to main without raising
RetentionReturned == pc \in {"rm_return", "wal_list", "wal_read", "wal_prune", "finish", "done"}

\* the K names of S with the greatest (date, time)
Greatest(S, K) == {n \in S : Cardinality({m \in S : Earlier(n, m)}) < K}

\* the name of S with the smallest (date, time)
Oldest(S) == CHOOSE n \in S : \A m \in S \ {n} : Earlier(n, m)

Max(a, b) == IF a >= b THEN a ELSE b

\* C1: once retention with keep K >= 1 has returned, of the N backups that
\* were listed exactly max(0, N - K) are gone and the backups left at the
\* destination are the K with the greatest (date, time), whatever the order
\* of the listing.
C1_RetentionKeepsNewest ==
    \A k \in Succeeded("cleanup_old_backups", "list") :
        (RetentionReturned /\ calls[k].arg \subseteq LabelNames)
        => LET listed == calls[k].arg
           IN  /\ Present = Greatest(listed, args.keep)
               /\ Cardinality(listed \ Present) = Max(0, Cardinality(listed) - args.keep)

\* C2: the list get_current_labels returns is in ascending order of
\* (date, time), whatever the order of the listing.
C2_ListingAscending ==
    (\A k \in 1..Len(labels) : IsLabelFormat(labels[k]))
    => \A a, b \in 1..Len(labels) : a < b => ~Earlier(labels[b], labels[a])

\* C3: the segment handed to pg_archivecleanup is the one recorded for the
\* backup with the smallest (date, time) at the destination, so no backup at
\* the destination needs a segment below it.
C3_CutoffOfOldestBackup ==
    \A k \in Issued("cleanup_wal_archive", "prune") :
        Present \subseteq LabelNames
        => /\ calls[k].arg = SegOf(Oldest(Present))
           /\ \A b \in Present : SegOf(b) >= calls[k].arg

\* C9: get_current_labels keeps a name only if the whole name has the label
\* format, and skips every other name without raising.
C9_OnlyWholeNameMatches ==
    /\ \A k \in 1..Len(labels) : IsLabelFormat(labels[k])
    /\ exc # "ValueError"

\* C4: the backup whose backup_label supplies the cutoff comes from a
\* listing made after every drain and collapse call of the run: it is at the
\* destination, and it is none of the backups retention removed.
C4_CutoffFromFreshListing ==
    oldest_label # None
    => /\ dest[oldest_label] # "absent"
       /\ \A k \in Succeeded("rsync_delete_dirs", "collapse") :
              oldest_label \notin Range(calls[k].arg)
       /\ \E k \in Succeeded("cleanup_wal_archive", "list") :
              /\ oldest_label \in calls[k].arg
              /\ \A j \in Idx : calls[j].by = "rsync_delete_dirs" => j < k

C4_Witness ==
    /\ pc = "wal_prune"
    /\ oldest_label # None
    /\ \E k \in Succeeded("rsync_delete_dirs", "collapse") : calls[k].arg # <<>>

\* C5: the calls of a backup come in the order begin hot backup, query,
\* mirror, end hot backup, metadata writes; end hot backup and the mirror are
\* issued only after a begin hot backup that succeeded.
BackupRank(op) ==
    CASE op = "begin" -> 1 [] op = "show" -> 2 [] op = "mirror" -> 3
      [] op = "end" -> 4 [] op = "write" -> 5 [] OTHER -> 0

C5_BackupCallOrder ==
    /\ \A j, k \in Idx :
          (j < k /\ BackupRank(calls[j].op) > 0 /\ BackupRank(calls[k].op) > 0)
          => BackupRank(calls[j].op) < BackupRank(calls[k].op)
             \/ (calls[j].op = "write" /\ calls[k].op = "write")
    /\ \A k \in Idx :
          calls[k].op \in {"mirror", "end"}
          => \E j \in Succeeded("initiate_backup", "begin") : j < k

C5_Witness ==
    /\ pc = "done"
    /\ \E k \in Succeeded("write_backup_file", "write") : calls[k].arg[2] = "tablespace_map"

\* C6: a mirror that exits with status 24 counts as a success and the run
\* goes on to finalize; a mirror that exits with any other non-zero status
\* ends the run: no later call is issued, and the process fails.
C6_MirrorExitStatus ==
    \A k \in Issued("perform_backup", "mirror") :
        LET rc == calls[k].arg[2]
        IN  /\ (rc \in {0, 24} /\ k = Len(calls)) => (pc = "stop" /\ exc = "")
            /\ rc \notin {0, 24}
               => /\ k = Len(calls)
                  /\ pc = "failed"
                  /\ exc = "CalledProcessError"
                  /\ \A n \in 1..Len(logs) : logs[n][2] # "Completed"

C6_Witness ==
    \E k \in Issued("perform_backup", "mirror") :
        /\ calls[k].arg[2] = 24
        /\ \E j \in Succeeded("finalize_backup", "end") : j > k

\* C7: after a begin hot backup that succeeded the database stays in
\* hot-backup mode until finalize_backup's end hot backup succeeds, also when
\* the run has failed; only finalize_backup issues end hot backup; no call
\* is issued twice, and a call that failed is the last call of the run.
C7_NoRollbackNoRetry ==
    /\ (Succeeded("initiate_backup", "begin") # {} /\ Succeeded("finalize_backup", "end") = {})
       => hot
    /\ \A k \in Idx : calls[k].op = "end" => calls[k].by = "finalize_backup"
    /\ \A j, k \in Idx :
          (j < k /\ calls[j].by = calls[k].by /\ calls[j].op = calls[k].op)
          => calls[j].arg # calls[k].arg
    /\ \A k \in Idx :
          (~calls[k].ok /\ ~(calls[k].op = "mirror" /\ calls[k].arg[2] = 24))
          => k = Len(calls)

C7_Witness ==
    /\ pc = "failed"
    /\ Succeeded("initiate_backup", "begin") # {}
    /\ Succeeded("finalize_backup", "end") = {}
    /\ hot

\* The three conditions of cleanup_wal_archive.
NoBackupsFound ==
    Succeeded("cleanup_wal_archive", "list") # {} /\ labels = <<>> /\ exc # "ValueError"

MetadataUnavailable == backup_label.read = "failed"

SegmentNotFound ==
    /\ backup_label.read = "ok"
    /\ \A n \in 1..Len(backup_label.text) : ~LAST_SEGMENT_RE_match(backup_label.text[n])

\* pg_archivecleanup was not called and the run ends with exit status 0
ArchiveCleanupSkipped ==
    /\ Issued("cleanup_wal_archive", "prune") = {}
    /\ pc \in {"finish", "done"}
    /\ exc = ""

\* the level of the record cleanup_wal_archive logged last
LoggedAt(level) ==
    LET n == IF pc = "done" THEN Len(logs) - 1 ELSE Len(logs)
    IN  n >= 1 /\ logs[n][1] = level

\* pg_archivecleanup is called only with the file of the first matching line
PrunerOnlyWithCutoff ==
    \A k \in Issued("cleanup_wal_archive", "prune") :
        /\ backup_label.read = "ok"
        /\ \E n \in 1..Len(backup_label.text) :
              /\ LAST_SEGMENT_RE_match(backup_label.text[n])
              /\ backup_label.text[n].file = calls[k].arg
              /\ \A m \in 1..(n - 1) : ~LAST_SEGMENT_RE_match(backup_label.text[m])

\* C8 as stated: under each of NoBackupsFound, MetadataUnavailable and
\* SegmentNotFound a warning is logged, pg_archivecleanup is not called and
\* the run completes; pg_archivecleanup is called only with a resolved cutoff.
C8_AllThreeLogWarning ==
    /\ (NoBackupsFound \/ MetadataUnavailable \/ SegmentNotFound)
       => (ArchiveCleanupSkipped /\ LoggedAt("warning"))
    /\ PrunerOnlyWithCutoff

\* C8 as amended: the same, except that MetadataUnavailable is logged with
\* log.exception, a record of level ERROR, not a warning.
C8_SkippedAndLogged ==
    /\ (NoBackupsFound \/ SegmentNotFound) => (ArchiveCleanupSkipped /\ LoggedAt("warning"))
    /\ MetadataUnavailable => (ArchiveCleanupSkipped /\ LoggedAt("error"))
    /\ PrunerOnlyWithCutoff

C8_Witness == MetadataUnavailable /\ pc = "done"

\* C10 as stated: a call of rsync_delete_dirs that starts with each of its
\* labels missing or empty at the destination, after an earlier call with
\* the same labels, leaves the destination as the earlier call left it.
C10_SecondCallChangesNothing ==
    (/\ inv = 2
     /\ pc = "rm_return"
     /\ \A k \in 1..Len(delete_labels) : after1.dest[delete_labels[k]] \in {"absent", "empty"})
    => dest = after1.dest

\* C10 as amended: after a first call that returned normally, which leaves
\* every one of its labels missing, a second call with the same labels that
\* returns normally leaves the destination as the first call left it.
C10_IdempotentAfterReturn ==
    (inv = 2 /\ pc = "rm_return" /\ after1.completed)
    => /\ dest = after1.dest
       /\ \A k \in 1..Len(delete_labels) : dest[delete_labels[k]] = "absent"

C10_Witness ==
    /\ inv = 2
    /\ pc = "rm_return"
    /\ after1.completed
    /\ Len(delete_labels) >= 2
    /\ Cardinality(Succeeded("rsync_delete_dirs", "collapse")) = 2

\* the names at the destination when this invocation started
StartedWith == {n \in Names : after1.dest[n] # "absent"}

\* The destination after a run of cleanup_old_backups that nothing
\* interrupts, on backups that are all complete: ls is what
\* get_current_labels returned for them.
UninterruptedOutcome(listed, ls, keep) ==
    LET removed == IF Len(ls) > keep THEN Range(OldestBut(ls, keep)) ELSE {}
    IN  [n \in Names |-> IF n \in listed \ removed THEN "full" ELSE "absent"]

\* C11: when a run that failed in the drain or the collapse phase is run
\* again with the same keep count, and retention returns this time, the
\* destination holds the backups an uninterrupted run on the same backups
\* would have left, for one of the orders the listing can have.
C11_RerunEndsAsUninterrupted ==
    (inv = 2 /\ RetentionReturned /\ StartedWith \subseteq LabelNames)
    => \E r \in ListingResults(StartedWith) :
          dest = UninterruptedOutcome(StartedWith, r.labels, args.keep)

\* calls issued by cleanup_old_backups or by rsync_delete_dirs
RetentionCalls == {k \in Idx : calls[k].by \in {"cleanup_old_backups", "rsync_delete_dirs"}}

\* C12: with a keep count <= 0 (-1 when --keep is not given) retention is
\* not entered: nothing is listed for it, nothing is selected, no drain or
\* collapse call is issued, and every backup the run found is still there
\* with its contents, however many there are.
C12_NoRetentionWithoutKeep ==
    args.keep <= 0
    => /\ RetentionCalls = {}
       /\ delete_labels = <<>>
       /\ pc \notin {"list", "rm_mkdtemp", "rm_drain", "rm_collapse", "rm_finally",
                      "rm_return", "rm_raised"}
       /\ \A n \in StartedWith : dest[n] = "full"

C12_Witness ==
    /\ pc = "done"
    /\ args.keep = -1
    /\ args.backup
    /\ Cardinality(Present \cap LabelNames) > MaxBackups

\* the labels the calls of the backup were given: the label handed to
\* pg_start_backup, the directory the mirror wrote to, the directory
\* backup_label and tablespace_map were written into
LabelsUsed ==
    {calls[k].arg : k \in Issued("initiate_backup", "begin")}
        \cup {calls[k].arg[1] : k \in Issued("perform_backup", "mirror")}
        \cup {calls[k].arg[1] : k \in Issued("write_backup_file", "write")}

\* C13: the calls of one run all carry one label, the memoized one, which
\* is the label pg_start_backup was given, whatever the clock shows when the
\* later calls are made.
C13_OneLabelPerRun ==
    /\ Cardinality(LabelsUsed) <= 1
    /\ LabelsUsed \subseteq {label}
    /\ label # None => \E k \in Issued("initiate_backup", "begin") : calls[k].arg = label

\* a complete backup whose last file was written after the clock had moved
\* on from the instant of the label
C13_Witness ==
    /\ pc = "done"
    /\ strftime(clock) # label
    /\ Succeeded("perform_backup", "mirror") # {}
    /\ \E k \in Succeeded("write_backup_file", "write") :
          calls[k].arg = <<label, "tablespace_map">>

\* ord(c) for the characters of a label
Ord(c) == CASE c \in Range(Digits) -> 48 + DigitVal(c) [] c = "T" -> 84 [] c = "Z" -> 90

\* a < b on strings
RECURSIVE LexLess(_, _)
LexLess(a, b) ==
    IF b = <<>> THEN FALSE
    ELSE IF a = <<>> THEN TRUE
    ELSE IF a[1] = b[1] THEN LexLess(Tail(a), Tail(b))
    ELSE Ord(a[1]) < Ord(b[1])

\* the two readings fall in the same second
SameSecond(t1, t2) == t1.date = t2.date /\ t1.time = t2.time

\* C14 as stated: of two labels generated at instants t1 < t2 the first is
\* strictly less than the second as a string.
C14_StrictlyIncreasing ==
    \A j, k \in Idx :
        Before(calls[j].arg[1], calls[k].arg[1]) => LexLess(calls[j].arg[2], calls[k].arg[2])

\* C14 as amended: of two labels generated at instants t1 < t2 the second
\* is never less than the first; the first is strictly less when t1 and t2
\* are in different seconds, and the two are the same string when t1 and t2
\* are in the same second.
C14_IncreasingBySecond ==
    \A j, k \in Idx :
        Before(calls[j].arg[1], calls[k].arg[1])
        => IF SameSecond(calls[j].arg[1], calls[k].arg[1])
           THEN calls[j].arg[2] = calls[k].arg[2]
           ELSE LexLess(calls[j].arg[2], calls[k].arg[2])

\* labels generated at 09:59:59 and at 10:00:00 of one day
C14_Witness ==
    /\ Len(calls) = 2
    /\ calls[1].arg[1].date = calls[2].arg[1].date
    /\ calls[1].arg[1].time = 95959
    /\ calls[2].arg[1].time = 100000
    /\ LexLess(calls[1].arg[2], calls[2].arg[2])

Drains == Issued("rsync_delete_dirs", "drain")

Collapses == Issued("rsync_delete_dirs", "collapse")

\* C15: the drain calls go through delete_labels in order, one at a time,
\* each after the one before it has succeeded; the one collapse call comes
\* after a successful drain of every label.  When the drain of the i-th label
\* has failed, the first i-1 labels are empty directories, the i-th and the
\* later ones are as they were, every listed name is still at the
\* destination, and there is no collapse call.
C15_DrainsInOrderThenCollapse ==
    /\ Cardinality(Drains) <= Len(delete_labels)
    /\ Cardinality(Collapses) <= 1
    /\ \A k \in Drains :
          /\ calls[k].arg = delete_labels[Cardinality({j \in Drains : j <= k})]
          /\ \A j \in Drains : j < k => calls[j].ok
    /\ \A c \in Collapses :
          /\ calls[c].arg = delete_labels
          /\ Cardinality({k \in Drains : calls[k].ok /\ k < c}) = Len(delete_labels)
    /\ \A k \in Drains :
          ~calls[k].ok
          => /\ Collapses = {}
             /\ \A p \in 1..Len(delete_labels) :
                   dest[delete_labels[p]] = IF p < Cardinality(Drains) THEN "empty" ELSE "full"
             /\ \A l \in Succeeded("cleanup_old_backups", "list") : calls[l].arg \subseteq Present

\* the drain of the second of three selected backups failed
C15_Witness ==
    /\ pc = "failed"
    /\ Len(delete_labels) > 2
    /\ \E k \in Drains : ~calls[k].ok /\ calls[k].arg = delete_labels[2]
    /\ dest[delete_labels[1]] = "empty"

\* rsync_delete_dirs is between mkdtemp and the end of its finally clause
InsideTry == pc \in {"rm_drain", "rm_collapse", "rm_finally"}

\* C16: the scratch directory exists while rsync_delete_dirs is inside its
\* try statement and at no other time: it is gone once the function has
\* returned, and once it has raised from a drain call or the collapse call.
C16_ScratchRemovedOnExit ==
    /\ InsideTry => scratch
    /\ ~InsideTry => ~scratch

\* the run ended by a failed collapse call, or by a failed drain call
C16_Witness ==
    /\ pc = "failed"
    /\ raising = "CalledProcessError"
    /\ \E k \in Drains \cup Collapses : ~calls[k].ok
    /\ ~scratch

\* C17: whatever point rsync_delete_dirs has reached, every name that is
\* not one of its labels is at the destination exactly as it was when the
\* call started (missing, empty or with its contents), the WAL archive has
\* all its segments, every drain call was aimed at one of the labels and the
\* collapse call named exactly the labels.
C17_OnlySelectedChanged ==
    /\ \A n \in Names \ Range(delete_labels) : dest[n] = after1.dest[n]
    /\ archive = Segments
    /\ \A k \in Drains : calls[k].arg \in Range(delete_labels)
    /\ \A k \in Collapses : calls[k].arg = delete_labels

\* the call has returned, its label is gone, and an empty directory and a
\* backup that were not selected are still there
C17_Witness ==
    /\ pc = "rm_return"
    /\ \E n \in Range(delete_labels) : after1.dest[n] = "full" /\ dest[n] = "absent"
    /\ \E n \in LabelNames \ Range(delete_labels) : dest[n] = "empty"
    /\ \E n \in LabelNames \ Range(delete_labels) : dest[n] = "full"

\* C18: a run given --rsync-connect-opts goes as a run without them: it
\* ends in failure only when a call it issued has failed, never with an
\* exception raised while the rsync command line is put together; so a
\* backup whose pg_start_backup, SHOW data_directory and mirror raise no
\* error goes on to pg_stop_backup.
C18_ConnectOptsRunProceeds ==
    args.rsync_connect_opts
    => /\ exc # "NameError"
       /\ pc = "failed" => \E k \in Idx : ~calls[k].ok

BackupFunctions == {"initiate_backup", "perform_backup", "finalize_backup", "write_backup_file"}

\* a backup was asked for and one of its steps failed: a call of
\* initiate_backup, perform_backup or finalize_backup failed (a mirror that
\* exits with the tolerated status is no failure), or the rsync command line
\* could not be built
BackupFailed ==
    /\ args.backup
    /\ \/ \E k \in Idx :
             /\ calls[k].by \in BackupFunctions
             /\ ~calls[k].ok
             /\ ~(calls[k].op = "mirror" /\ MirrorTolerated(calls[k].arg[2]))
       \/ exc = "NameError"

\* calls issued by retention or by archive cleanup
MaintenanceCalls ==
    {k \in Idx : calls[k].by \in {"cleanup_old_backups", "rsync_delete_dirs", "cleanup_wal_archive"}}

\* C19: when a backup was asked for and one of its steps failed, the run
\* has ended there: no listing, drain, collapse or pg_archivecleanup call is
\* issued, every backup the run found is still there with its contents and
\* the WAL archive has all its segments.
C19_FailedBackupSkipsMaintenance ==
    BackupFailed
    => /\ pc = "failed"
       /\ MaintenanceCalls = {}
       /\ \A n \in StartedWith : dest[n] = "full"
       /\ archive = Segments

\* --backup --keep 1 --clean-archive with three backups at the destination,
\* ended by the failed write of tablespace_map
C19_Witness ==
    /\ pc = "failed"
    /\ args.backup /\ args.keep = 1 /\ args.clean_archive
    /\ Cardinality(StartedWith \cap LabelNames) = MaxBackups
    /\ \E k \in Issued("write_backup_file", "write") :
          ~calls[k].ok /\ calls[k].arg[2] = "tablespace_map"

\* C20: in a run that makes a backup and then applies a keep count >= 1,
\* when every backup found at the start has an earlier (date, time) than the
\* label of the run, the backup of the run is not among the labels selected
\* for removal, whatever the order of the listing.
C20_NewBackupNeverSelected ==
    (/\ label # None
     /\ args.keep >= 1
     /\ StartedWith \subseteq LabelNames
     /\ \A n \in StartedWith : Earlier(n, label))
    => label \notin Range(delete_labels)

====
